---- MODULE Spec2Model ----
(***************************************************************************)
(* A model of number_game.py (rjhdby/study_greek): the number-dictation    *)
(* drill.  Four specifications share the module:                           *)
(*   SpecPlay / FairPlay  one call of read_input_during_playback with its  *)
(*                        playback thread (play_audio_async);              *)
(*   SpecFn               the clip resolver and the decomposition, applied *)
(*                        to every number of [0,1999];                     *)
(*   SpecGen              generate_number_with_errors on bounded inputs;   *)
(*   Spec                 a session of main(): startup, rounds, prompts.   *)
(***************************************************************************)
EXTENDS Integers, Sequences, FiniteSets, TLC

VARIABLES
    \* ---- read_input_during_playback / play_audio_async ----
    ppc,            \* position of the playback thread
    pexc,           \* an exception is pending in the playback thread
    cpc,            \* position of the caller inside read_input_during_playback
    cexc,           \* an exception is pending in the caller (inside try)
    done_event,     \* threading.Event: set or not
    sets,           \* how many times done_event.set() ran
    termMode,       \* the terminal's input mode
    preMode,        \* the terminal's input mode when the call began
    old_settings,   \* what tcgetattr saved ("none" before that)
    stdin,          \* keystrokes available on the input, not yet read
    typed,          \* every keystroke that arrived, in arrival order
    typedAtSignal,  \* how many had arrived when done_event was set
    buffer,         \* the characters appended so far
    \* ---- clip resolver / decomposition ----
    fpc, fn_number, audio_dir, fn_files, fn_comps,
    \* ---- generate_number_with_errors ----
    gpc, g_errors, g_min, g_max, g_candidates, g_possible, g_result,
    \* ---- main ----
    pc, args_min, args_max, number, audio_seg, warnings, total_numbers,
    first_try_correct, errors, is_first_try, prefill_buffer,
    captured, prefill_shown, prompts_since_cycle, user_input, last_msg,
    highlighted, reported_total, inputs_left, before,
    argv,           \* --min and --max as given on the command line
    history         \* what has happened in the session and in the round

playVars == <<ppc, pexc, cpc, cexc, done_event, sets, termMode, preMode,
              old_settings, stdin, typed, typedAtSignal, buffer>>
fnVars   == <<fpc, fn_number, audio_dir, fn_files, fn_comps>>
genVars  == <<gpc, g_errors, g_min, g_max, g_candidates, g_possible,
              g_result>>
mainVars == <<pc, args_min, args_max, number, audio_seg, warnings,
              total_numbers, first_try_correct, errors, is_first_try,
              prefill_buffer, captured, prefill_shown, prompts_since_cycle,
              user_input, last_msg, highlighted, reported_total, inputs_left,
              before, argv, history>>
vars     == <<playVars, fnVars, genVars, mainVars>>
notPlay  == <<fnVars, genVars, mainVars>>
notFn    == <<playVars, genVars, mainVars>>
notGen   == <<playVars, fnVars, mainVars>>
notMain  == <<playVars, fnVars, genVars>>

(***************************************************************************)
(* Program constants and bounds.                                           *)
(***************************************************************************)
DEFAULT_MIN == 0
DEFAULT_MAX == 1999

\* Keystrokes that arrive during one playback/capture cycle.
MaxKeys == 3

\* Lines of input answered at the prompt in one session.
MaxInputs == 4

\* The largest count of a bucket in the maps handed to the generator.
MaxErrCount == 1

Keys == {"1", "9"}

(***************************************************************************)
(* Small helpers.                                                          *)
(***************************************************************************)
Max(a, b) == IF a >= b THEN a ELSE b

IsPrefix(s, t) == Len(s) <= Len(t) /\ SubSeq(t, 1, Len(s)) = s

(***************************************************************************)
(* The playback/input coordinator.                                         *)
(***************************************************************************)
PlayTerminated == ppc \in {"done", "failed"}

CallOver == cpc \in {"returned", "raised"}

PlayIdle ==
    /\ ppc = "unstarted" /\ pexc = FALSE
    /\ cpc = "idle" /\ cexc = FALSE
    /\ done_event = FALSE /\ sets = 0
    /\ termMode = "cooked" /\ preMode = "cooked" /\ old_settings = "none"
    /\ stdin = <<>> /\ typed = <<>> /\ typedAtSignal = 0 /\ buffer = <<>>

\* The state at the call: the terminal is in the mode the caller left it in.
PlayInit ==
    /\ ppc = "unstarted" /\ pexc = FALSE
    /\ cpc = "start" /\ cexc = FALSE
    /\ done_event = FALSE /\ sets = 0
    /\ termMode \in {"cooked", "cbreak"} /\ preMode = termMode
    /\ old_settings = "none"
    /\ stdin = <<>> /\ typed = <<>> /\ typedAtSignal = 0 /\ buffer = <<>>

\* lines 22-24: the temporary file is made and the segment exported, outside
\* the try; an exception here ends the thread.
PlayExport ==
    /\ ppc = "export"
    /\ \/ ppc' = "call"
       \/ ppc' = "failed"
    /\ UNCHANGED notPlay
    /\ UNCHANGED <<pexc, cpc, cexc, done_event, sets, termMode, preMode,
                   old_settings, stdin, typed, typedAtSignal, buffer>>

\* lines 25-28: subprocess.call blocks until the player ends; it returns
\* (whatever the exit status) or raises (no player installed), and the finally
\* block runs either way.
PlayCall ==
    /\ ppc = "call"
    /\ ppc' = "unlink"
    /\ pexc' \in BOOLEAN
    /\ UNCHANGED notPlay
    /\ UNCHANGED <<cpc, cexc, done_event, sets, termMode, preMode,
                   old_settings, stdin, typed, typedAtSignal, buffer>>

\* line 30: os.unlink, first statement of the finally block; if it raises,
\* line 31 is not reached.
PlayUnlink ==
    /\ ppc = "unlink"
    /\ \/ ppc' = "set"
       \/ ppc' = "failed"
    /\ UNCHANGED notPlay
    /\ UNCHANGED <<pexc, cpc, cexc, done_event, sets, termMode, preMode,
                   old_settings, stdin, typed, typedAtSignal, buffer>>

\* line 31: done_event.set(); then the pending exception, if any, ends the
\* thread.
PlaySet ==
    /\ ppc = "set"
    /\ done_event' = TRUE
    /\ sets' = sets + 1
    /\ typedAtSignal' = Len(typed)
    /\ ppc' = IF pexc THEN "failed" ELSE "done"
    /\ UNCHANGED notPlay
    /\ UNCHANGED <<pexc, cpc, cexc, termMode, preMode, old_settings, stdin,
                   typed, buffer>>

play_audio_async == PlayExport \/ PlayCall \/ PlayUnlink \/ PlaySet

\* lines 39-44: the buffer, the event, and the thread is started.
CaptureStart ==
    /\ cpc = "start"
    /\ buffer' = <<>>
    /\ done_event' = FALSE
    /\ ppc' = "export"
    /\ cpc' = "save"
    /\ UNCHANGED notPlay
    /\ UNCHANGED <<pexc, cexc, sets, termMode, preMode, old_settings, stdin,
                   typed, typedAtSignal>>

\* lines 47-48: tcgetattr, before the try: a failure (stdin is no terminal)
\* leaves the call at once.
CaptureSave ==
    /\ cpc = "save"
    /\ \/ old_settings' = termMode /\ cpc' = "setraw"
       \/ old_settings' = old_settings /\ cpc' = "raised"
    /\ UNCHANGED notPlay
    /\ UNCHANGED <<ppc, pexc, cexc, done_event, sets, termMode, preMode,
                   stdin, typed, typedAtSignal, buffer>>

\* line 52: tty.setraw; when it raises the mode may or may not have changed.
CaptureSetRaw ==
    /\ cpc = "setraw"
    /\ \/ termMode' = "raw" /\ cpc' = "check" /\ cexc' = cexc
       \/ termMode' \in {termMode, "raw"} /\ cpc' = "restore" /\ cexc' = TRUE
    /\ UNCHANGED notPlay
    /\ UNCHANGED <<ppc, pexc, done_event, sets, preMode, old_settings, stdin,
                   typed, typedAtSignal, buffer>>

\* line 54: while not done_event.is_set()
CaptureCheck ==
    /\ cpc = "check"
    /\ cpc' = IF done_event THEN "restore" ELSE "select"
    /\ UNCHANGED notPlay
    /\ UNCHANGED <<ppc, pexc, cexc, done_event, sets, termMode, preMode,
                   old_settings, stdin, typed, typedAtSignal, buffer>>

\* line 56: select with the 0.1 s timeout: readable, timed out, or raised.
CaptureSelect ==
    /\ cpc = "select"
    /\ \/ cpc' = (IF stdin # <<>> THEN "read" ELSE "check") /\ cexc' = cexc
       \/ cpc' = "restore" /\ cexc' = TRUE
    /\ UNCHANGED notPlay
    /\ UNCHANGED <<ppc, pexc, done_event, sets, termMode, preMode,
                   old_settings, stdin, typed, typedAtSignal, buffer>>

\* lines 57-59: one character is read and appended.
CaptureRead ==
    /\ cpc = "read"
    /\ \/ /\ stdin # <<>>
          /\ buffer' = Append(buffer, Head(stdin))
          /\ stdin' = Tail(stdin)
          /\ cpc' = "check" /\ cexc' = cexc
       \/ /\ cpc' = "restore" /\ cexc' = TRUE
          /\ UNCHANGED <<buffer, stdin>>
    /\ UNCHANGED notPlay
    /\ UNCHANGED <<ppc, pexc, done_event, sets, termMode, preMode,
                   old_settings, typed, typedAtSignal>>

RestoreOnException_Skipped == FALSE

\* The restore is in a finally block (lines 60-62): it runs on the exits by
\* exception as well.
RestoreOnException == TRUE

\* lines 60-62: finally: tcsetattr(fd, TCSADRAIN, old_settings); a pending
\* exception then leaves the call.
CaptureRestore ==
    /\ cpc = "restore"
    /\ termMode' = IF cexc /\ ~RestoreOnException THEN termMode
                   ELSE old_settings
    /\ cpc' = IF cexc THEN "raised" ELSE "join"
    /\ UNCHANGED notPlay
    /\ UNCHANGED <<ppc, pexc, cexc, done_event, sets, preMode, old_settings,
                   stdin, typed, typedAtSignal, buffer>>

\* lines 64-65: play_thread.join() and the return.
CaptureJoin ==
    /\ cpc = "join"
    /\ PlayTerminated
    /\ cpc' = "returned"
    /\ UNCHANGED notPlay
    /\ UNCHANGED <<ppc, pexc, cexc, done_event, sets, termMode, preMode,
                   old_settings, stdin, typed, typedAtSignal, buffer>>

read_input_during_playback ==
    \/ CaptureStart \/ CaptureSave \/ CaptureSetRaw \/ CaptureCheck
    \/ CaptureSelect \/ CaptureRead \/ CaptureRestore \/ CaptureJoin

\* The user: a keystroke becomes available on the input.
KeyArrives ==
    /\ ~CallOver
    /\ Len(typed) < MaxKeys
    /\ \E k \in Keys :
          /\ stdin' = Append(stdin, k)
          /\ typed' = Append(typed, k)
    /\ UNCHANGED notPlay
    /\ UNCHANGED <<ppc, pexc, cpc, cexc, done_event, sets, termMode, preMode,
                   old_settings, typedAtSignal, buffer>>

(***************************************************************************)
(* Decimal text: str(), int() and the clip file names.                     *)
(***************************************************************************)
DigitChars == <<"0", "1", "2", "3", "4", "5", "6", "7", "8", "9">>

IsDigit(c) == \E i \in 1..10 : DigitChars[i] = c

\* int(char) for one decimal digit character.
DigitValue(c) == (CHOOSE i \in 1..10 : DigitChars[i] = c) - 1

RECURSIVE NatStr(_)
NatStr(n) ==
    IF n < 10 THEN <<DigitChars[n + 1]>>
    ELSE Append(NatStr(n \div 10), DigitChars[(n % 10) + 1])

\* str(number): the decimal digits, most significant first, "-" before a
\* negative number.
Str(n) == IF n < 0 THEN <<"-">> \o NatStr(0 - n) ELSE NatStr(n)

RECURSIVE DigitsValue(_)
\* The value of a sequence of decimal digit characters.
DigitsValue(s) ==
    IF s = <<>> THEN 0
    ELSE 10 * DigitsValue(SubSeq(s, 1, Len(s) - 1)) + DigitValue(s[Len(s)])

RECURSIVE SumSeq(_)
SumSeq(s) == IF s = <<>> THEN 0 ELSE Head(s) + SumSeq(Tail(s))

(***************************************************************************)
(* The clip resolver and the decomposition.  A clip file is named by the   *)
(* decimal text of its number; the audio directory is the set of the clip  *)
(* files that exist.                                                       *)
(***************************************************************************)
\* os.path.join(audio_dir, f"{number}.mp3")
ClipFile(n) == [stem |-> Str(n), ext |-> "mp3"]

\* The number a clip file speaks.
ClipValue(f) == DigitsValue(f.stem)

ClipValues(files) == [i \in 1..Len(files) |-> ClipValue(files[i])]

\* os.path.exists
Exists(dir, f) == f \in dir

ExactCheck_Skipped(n, dir) == FALSE

\* lines 76-77: the exact-match test.
ExactCheck(n, dir) == Exists(dir, ClipFile(n))

\* lines 80-98 with the mutation: the thousands are not taken off the number.
DecomposeFiles_KeepsThousands(n) ==
    LET f1 == IF n >= 1000
              THEN <<ClipFile((n \div 1000) * 1000)>> ELSE <<>>
        n1 == n
        f2 == IF n1 >= 100
              THEN Append(f1, ClipFile((n1 \div 100) * 100)) ELSE f1
        n2 == IF n1 >= 100 THEN n1 % 100 ELSE n1
        f3 == IF n2 >= 20
              THEN Append(f2, ClipFile((n2 \div 10) * 10)) ELSE f2
        n3 == IF n2 >= 20 THEN n2 % 10 ELSE n2
    IN  IF n3 > 0 THEN Append(f3, ClipFile(n3)) ELSE f3

\* lines 80-98: thousands, hundreds, tens from 20 up, then what is left
\* (1-19) as one clip.
DecomposeFiles(n) ==
    LET f1 == IF n >= 1000
              THEN <<ClipFile((n \div 1000) * 1000)>> ELSE <<>>
        n1 == IF n >= 1000 THEN n % 1000 ELSE n
        f2 == IF n1 >= 100
              THEN Append(f1, ClipFile((n1 \div 100) * 100)) ELSE f1
        n2 == IF n1 >= 100 THEN n1 % 100 ELSE n1
        f3 == IF n2 >= 20
              THEN Append(f2, ClipFile((n2 \div 10) * 10)) ELSE f2
        n3 == IF n2 >= 20 THEN n2 % 10 ELSE n2
    IN  IF n3 > 0 THEN Append(f3, ClipFile(n3)) ELSE f3

\* lines 68-98
get_audio_files_for_number(n, dir) ==
    IF ExactCheck(n, dir) THEN <<ClipFile(n)>>
    ELSE DecomposeFiles(n)

\* lines 157-164 with the mutation: tens are split off from 10 up, so a teen
\* becomes 10 and a unit.
TensOrTeen_SplitsTeens(c, n) ==
    IF n >= 10 THEN [comps |-> Append(c, (n \div 10) * 10), rest |-> n % 10]
    ELSE [comps |-> c, rest |-> n]

\* lines 157-164: tens from 20 up, 11-19 as one component.
TensOrTeen(c, n) ==
    IF n >= 20 THEN [comps |-> Append(c, (n \div 10) * 10), rest |-> n % 10]
    ELSE IF n >= 11 THEN [comps |-> Append(c, n), rest |-> 0]
    ELSE [comps |-> c, rest |-> n]

\* lines 139-169 with the mutation: the units left at the end are dropped.
get_number_components_DropsUnits(n) ==
    LET c1 == IF n >= 1000
              THEN <<(n \div 1000) * 1000>> ELSE <<>>
        n1 == IF n >= 1000 THEN n % 1000 ELSE n
        c2 == IF n1 >= 100 THEN Append(c1, (n1 \div 100) * 100) ELSE c1
        n2 == IF n1 >= 100 THEN n1 % 100 ELSE n1
    IN  TensOrTeen(c2, n2).comps

\* lines 139-169
get_number_components(n) ==
    LET c1 == IF n >= 1000
              THEN <<(n \div 1000) * 1000>> ELSE <<>>
        n1 == IF n >= 1000 THEN n % 1000 ELSE n
        c2 == IF n1 >= 100 THEN Append(c1, (n1 \div 100) * 100) ELSE c1
        n2 == IF n1 >= 100 THEN n1 % 100 ELSE n1
        t  == TensOrTeen(c2, n2)
    IN  IF t.rest > 0 THEN Append(t.comps, t.rest) ELSE t.comps

\* The clips recorded for a voice: 0-20, the tens, the hundreds, 1000.
StdClips ==
    (0..20) \cup {10 * k : k \in 2..9} \cup {100 * k : k \in 1..9} \cup {1000}

\* The audio directories tried for number n: complete, complete with an
\* exact recording of n, some place values missing, only n, empty.
DirChoices(n) ==
    LET std == {ClipFile(k) : k \in StdClips}
    IN  { std,
          std \cup {ClipFile(n)},
          std \ {ClipFile(30), ClipFile(4), ClipFile(1000)},
          {ClipFile(n)},
          {} }

FnInit ==
    /\ fpc = "start"
    /\ fn_number \in DEFAULT_MIN..DEFAULT_MAX
    /\ audio_dir \in DirChoices(fn_number)
    /\ fn_files = <<>> /\ fn_comps = <<>>

\* get_audio_files_for_number is applied.
FnResolve ==
    /\ fpc = "start"
    /\ fn_files' = get_audio_files_for_number(fn_number, audio_dir)
    /\ fpc' = "resolved"
    /\ UNCHANGED <<fn_number, audio_dir, fn_comps>>
    /\ UNCHANGED notFn

\* get_number_components is applied.
FnDecompose ==
    /\ fpc = "resolved"
    /\ fn_comps' = get_number_components(fn_number)
    /\ fpc' = "done"
    /\ UNCHANGED <<fn_number, audio_dir, fn_files>>
    /\ UNCHANGED notFn

(***************************************************************************)
(* The adaptive generator.  random.random() < p is a free choice of either *)
(* outcome, random.choice and random.randint a free choice of the value:   *)
(* generate_number_with_errors is the set of the numbers a call can return. *)
(***************************************************************************)
\* random.randint(a, b)
RandInt(a, b) == a..b

\* line 178: the keys whose counter is positive.
PositiveErrors(errs) == {k \in DOMAIN errs : errs[k] > 0}

\* lines 184-188
ThousandsOf(pos) == {k \in pos : k = 1000}
HundredsOf(pos)  == {k \in pos : 100 <= k /\ k <= 900 /\ k % 100 = 0}
TensOf(pos)      == {k \in pos : 20 <= k /\ k <= 90 /\ k % 10 = 0}
TeensOf(pos)     == {k \in pos : 11 <= k /\ k <= 19}
UnitsOf(pos)     == {k \in pos : 1 <= k /\ k <= 9}

\* lines 193-196: a thousands bucket, else 1000, else nothing.
ThousandsPart(pos) == ThousandsOf(pos) \cup {1000, 0}

HundredsPart_BucketAndRandom(pos) ==
    {h + 100 * k : h \in HundredsOf(pos) \cup {0}, k \in 0..9}

\* lines 199-202: a hundreds bucket, else a random hundred, else nothing.
HundredsPart(pos) ==
    HundredsOf(pos) \cup {100 * k : k \in 1..9} \cup {0}

\* lines 210-213: a units bucket, else a random unit, else nothing.
UnitsPart(pos) == UnitsOf(pos) \cup RandInt(1, 9) \cup {0}

\* lines 205-217: a teen bucket; else a tens bucket with its units; else a
\* random 1-99 or nothing.
TailPart(pos) ==
    TeensOf(pos)
    \cup {t + u : t \in TensOf(pos), u \in UnitsPart(pos)}
    \cup RandInt(1, 99) \cup {0}

\* lines 190-217: the composed result before the range check.
GenCandidates(pos) ==
    {a + b + c : a \in ThousandsPart(pos), b \in HundredsPart(pos),
                 c \in TailPart(pos)}

RangeCheck_NoUpperBound(result, min_val, max_val) ==
    result = 0 \/ result < min_val

RangeCheck_ZeroAccepted(result, min_val, max_val) ==
    result < min_val \/ result > max_val

\* line 220: the composed result is rejected.
RangeCheck(result, min_val, max_val) ==
    result = 0 \/ result < min_val \/ result > max_val

UniformDraw_FromOne(min_val, max_val) == RandInt(Max(min_val, 1), max_val)

\* line 181: the draw when no bucket is positive.
UniformDraw(min_val, max_val) == RandInt(Max(min_val, 0), max_val)

\* lines 172-223
generate_number_with_errors(errs, min_val, max_val) ==
    LET pos == PositiveErrors(errs)
    IN  IF pos = {} THEN UniformDraw(min_val, max_val)
        ELSE UNION { IF RangeCheck(r, min_val, max_val)
                     THEN RandInt(Max(min_val, 1), max_val)
                     ELSE {r} : r \in GenCandidates(pos) }

\* Bucket keys handed to the generator: one of each category, and 10, which
\* is a bucket of no category.
GenKeys == {1000, 300, 60, 15, 7, 10}

\* Ranges as main() passes them: 0 <= min < max <= 1999.
GenRanges ==
    { <<0, 1>>, <<0, 12>>, <<1, 9>>, <<11, 19>>, <<55, 70>>, <<295, 310>>,
      <<990, 1010>>, <<1990, DEFAULT_MAX>> }

GenInit ==
    /\ gpc = "start"
    /\ g_errors \in [GenKeys -> 0..MaxErrCount]
    /\ \E r \in GenRanges : g_min = r[1] /\ g_max = r[2]
    /\ g_candidates = {} /\ g_possible = {} /\ g_result = 0

\* lines 178-217: the results the call can compose before its range check
\* (none when no bucket is positive: line 181 returns first).
GenCompose ==
    /\ gpc = "start"
    /\ g_candidates' =
          IF PositiveErrors(g_errors) = {} THEN {}
          ELSE GenCandidates(PositiveErrors(g_errors))
    /\ gpc' = "composed"
    /\ UNCHANGED <<g_errors, g_min, g_max, g_possible, g_result>>
    /\ UNCHANGED notGen

\* The return of one call of generate_number_with_errors.
GenDraw ==
    /\ gpc = "composed"
    /\ LET results == generate_number_with_errors(g_errors, g_min, g_max)
       IN  /\ g_possible' = results
           /\ g_result' \in results
    /\ gpc' = "done"
    /\ UNCHANGED <<g_errors, g_min, g_max, g_candidates>>
    /\ UNCHANGED notGen

(***************************************************************************)
(* Text at the prompt: strip(), lower(), int().                            *)
(***************************************************************************)
UpperChars ==
    <<"A", "B", "C", "D", "E", "F", "G", "H", "I", "J", "K", "L", "M",
      "N", "O", "P", "Q", "R", "S", "T", "U", "V", "W", "X", "Y", "Z">>

LowerChars ==
    <<"a", "b", "c", "d", "e", "f", "g", "h", "i", "j", "k", "l", "m",
      "n", "o", "p", "q", "r", "s", "t", "u", "v", "w", "x", "y", "z">>

LowerChar(c) ==
    IF \E i \in 1..26 : UpperChars[i] = c
    THEN LowerChars[CHOOSE i \in 1..26 : UpperChars[i] = c]
    ELSE c

\* str.lower()
Lower(s) == [i \in 1..Len(s) |-> LowerChar(s[i])]

IsSpace(c) == c \in {" ", "\t", "\r", "\n"}

RECURSIVE LStrip(_)
LStrip(s) == IF s # <<>> /\ IsSpace(Head(s)) THEN LStrip(Tail(s)) ELSE s

RECURSIVE RStrip(_)
RStrip(s) ==
    IF s # <<>> /\ IsSpace(s[Len(s)])
    THEN RStrip(SubSeq(s, 1, Len(s) - 1)) ELSE s

\* str.strip()
Strip(s) == RStrip(LStrip(s))

\* The digits of a text after its optional sign.
Unsigned(s) == IF s # <<>> /\ s[1] \in {"+", "-"} THEN Tail(s) ELSE s

IsIntText_EmptyIsZero(s) ==
    \A i \in 1..Len(Unsigned(s)) : IsDigit(Unsigned(s)[i])

\* int(user_input) succeeds: an optional sign and at least one digit.
IsIntText(s) ==
    /\ Unsigned(s) # <<>>
    /\ \A i \in 1..Len(Unsigned(s)) : IsDigit(Unsigned(s)[i])

\* int(user_input)
IntOf(s) ==
    IF s # <<>> /\ s[1] = "-" THEN 0 - DigitsValue(Unsigned(s))
    ELSE DigitsValue(Unsigned(s))

RECURSIVE Pow10(_)
Pow10(p) == IF p = 0 THEN 1 ELSE 10 * Pow10(p - 1)

RECURSIVE Zeros(_)
Zeros(k) == IF k <= 0 THEN <<>> ELSE <<"0">> \o Zeros(k - 1)

\* str.zfill(width) of the text of a number that is not negative.
ZFill(s, width) == Zeros(width - Len(s)) \o s

(***************************************************************************)
(* The error-bucket map: a function from the keys recorded so far to their *)
(* counts ({} is the function with the empty domain).                      *)
(***************************************************************************)
\* errors.get(key, 0)
Get(errs, key) == IF key \in DOMAIN errs THEN errs[key] ELSE 0

\* errors[key] = value
Put(errs, key, value) ==
    [k \in (DOMAIN errs) \cup {key} |-> IF k = key THEN value ELSE errs[k]]

RecordGuard_Always(error_value) == TRUE

\* line 370: zeros are not recorded.
RecordGuard(error_value) == error_value > 0

DecayGuard_Always(errs, comp) == comp \in DOMAIN errs

\* line 233: only a counter that exists and is positive is decremented.
DecayGuard(errs, comp) == comp \in DOMAIN errs /\ errs[comp] > 0

\* lines 226-234
decrement_errors_for_number(n, errs) ==
    LET components == get_number_components(n)
        comps == {components[i] : i \in 1..Len(components)}
    IN  [k \in DOMAIN errs |->
            IF k \in comps /\ DecayGuard(errs, k) THEN errs[k] - 1
            ELSE errs[k]]

RECURSIVE ScoreFrom(_, _, _, _, _)
\* lines 353-373, from the i-th character of the guess on (i counts from 1):
\* int(char) raises ValueError on a character that is no digit, and the
\* counters recorded before it stay recorded.
ScoreFrom(i, guess_str, correct_padded, errs, marks) ==
    IF i > Len(guess_str)
    THEN [errors |-> errs, highlighted |-> marks, raised |-> FALSE]
    ELSE IF ~IsDigit(guess_str[i])
    THEN [errors |-> errs, highlighted |-> marks, raised |-> TRUE]
    ELSE
      LET pos_from_end == Len(guess_str) - i
          guess_digit == DigitValue(guess_str[i])
          correct_pos_index == Len(correct_padded) - 1 - pos_from_end
          correct_digit ==
              IF correct_pos_index >= 0
              THEN DigitValue(correct_padded[correct_pos_index + 1])
              ELSE 0
          error_value == correct_digit * Pow10(pos_from_end)
      IN  IF guess_digit # correct_digit
          THEN ScoreFrom(i + 1, guess_str, correct_padded,
                         IF RecordGuard(error_value)
                         THEN Put(errs, error_value,
                                  Get(errs, error_value) + 1)
                         ELSE errs,
                         Append(marks, TRUE))
          ELSE ScoreFrom(i + 1, guess_str, correct_padded, errs,
                         Append(marks, FALSE))

\* lines 344-373: the scoring pass of a wrong guess.
ScoreGuess(n, guess, errs) ==
    LET correct_str == Str(n)
        guess_str == Str(guess)
        max_len == Max(Len(correct_str), Len(guess_str))
        correct_padded == ZFill(correct_str, max_len)
    IN  ScoreFrom(1, guess_str, correct_padded, errs, <<>>)

get_audio_for_number_StopsAtMissing(n, dir) ==
    LET files == get_audio_files_for_number(n, dir)
        missing == {i \in 1..Len(files) : ~Exists(dir, files[i])}
        upto == IF missing = {} THEN Len(files)
                ELSE (CHOOSE i \in missing : \A j \in missing : i <= j) - 1
    IN  [combined |-> SubSeq(files, 1, upto),
         warned |-> IF missing = {} THEN 0 ELSE 1]

\* lines 101-113: the clips that exist, in resolved order, and one warning
\* for each that does not.
get_audio_for_number(n, dir) ==
    LET files == get_audio_files_for_number(n, dir)
    IN  [combined |-> SelectSeq(files, LAMBDA f : Exists(dir, f)),
         warned |-> Cardinality({i \in 1..Len(files) :
                                    ~Exists(dir, files[i])})]

(***************************************************************************)
(* main(): the session.                                                    *)
(***************************************************************************)
\* The clips of a complete voice directory.
StdDir == {ClipFile(k) : k \in StdClips}

\* A directory with an exact recording of 105 and two clips missing.
PartDir == (StdDir \cup {ClipFile(105)}) \ {ClipFile(5), ClipFile(1000)}

\* The sessions tried: --min and --max as given on the command line, and
\* the audio directory of the chosen voice.
SessionConfigs ==
    { <<-3, 1, StdDir>>, <<5, 5, StdDir>>, <<9, 2, StdDir>>,
      <<1999, 2500, StdDir>>, <<13, 15, StdDir>>,
      <<104, 105, PartDir>>, <<1004, 1005, PartDir>>,
      <<1964, 1965, StdDir>> }

\* What read_input_during_playback can return.
CapturedTexts == { <<>>, <<"1">> }

\* What the user types at the prompt after the prefill.
TypedTexts ==
    { <<"q">>, <<"E", "x", "i", "t">>,
      <<"R">>, <<"S", "h", "o", "w">>, <<>>,
      <<"-", "5">>, <<" ", "0", "5">>, <<"1", "8", "4", "7">> }

\* The typed texts, and the rest of the right answer after the prefill.
Additional(n, prefill) ==
    TypedTexts \cup
    (IF IsPrefix(prefill, Str(n))
     THEN {SubSeq(Str(n), Len(prefill) + 1, Len(Str(n)))} ELSE {})

\* The record of the session kept beside the program's own counters: rounds
\* started, rounds ended by a right answer or by show, rounds ended by a
\* right answer with no wrong guess before it, and whether the round in
\* progress has seen a wrong guess or a repeat.
NoHistory == [started |-> 0, completed |-> 0, first_try |-> 0,
              wrong |-> FALSE, repeated |-> FALSE]

NoInput == [kind |-> "none", guess |-> 0, number |-> 0, errors |-> <<>>,
            total_numbers |-> 0, first_try_correct |-> 0,
            is_first_try |-> TRUE, audio_seg |-> <<>>,
            last_msg |-> "none", history |-> NoHistory]

MainInit ==
    /\ pc = "start"
    /\ \E c \in SessionConfigs :
          /\ args_min = c[1] /\ args_max = c[2] /\ audio_dir = c[3]
          /\ argv = <<c[1], c[2]>>
    /\ history = NoHistory
    /\ number = 0 /\ audio_seg = <<>> /\ warnings = 0
    /\ total_numbers = 0 /\ first_try_correct = 0 /\ errors = <<>>
    /\ is_first_try = TRUE /\ prefill_buffer = <<>>
    /\ captured = <<>> /\ prefill_shown = <<>> /\ prompts_since_cycle = 0
    /\ user_input = <<>> /\ last_msg = "none" /\ highlighted = <<>>
    /\ reported_total = 0 /\ inputs_left = MaxInputs /\ before = NoInput

ClampMax_Unbounded(m) == m

\* lines 283-286
ClampMin(m) == IF m < 0 THEN 0 ELSE m
ClampMax(m) == IF m > DEFAULT_MAX THEN DEFAULT_MAX ELSE m

\* lines 280-302: the range is clamped and checked, the statistics start.
Startup ==
    /\ pc = "start"
    /\ args_min' = ClampMin(args_min)
    /\ args_max' = ClampMax(args_max)
    /\ pc' = IF args_min' >= args_max' THEN "exit1" ELSE "round"
    /\ total_numbers' = 0 /\ first_try_correct' = 0 /\ errors' = <<>>
    /\ UNCHANGED <<number, audio_seg, warnings, is_first_try, prefill_buffer,
                   captured, prefill_shown, prompts_since_cycle, user_input,
                   last_msg, highlighted, reported_total, inputs_left,
                   before, argv, history>>
    /\ UNCHANGED notMain

\* lines 305-308: a round begins.
StartRound ==
    /\ pc = "round"
    /\ inputs_left > 0
    /\ number' \in generate_number_with_errors(errors, args_min, args_max)
    /\ LET seg == get_audio_for_number(number', audio_dir)
       IN  audio_seg' = seg.combined /\ warnings' = seg.warned
    /\ total_numbers' = total_numbers + 1
    /\ is_first_try' = TRUE
    /\ pc' = "capture"
    /\ history' = [history EXCEPT !.started = @ + 1, !.wrong = FALSE,
                                  !.repeated = FALSE]
    /\ UNCHANGED <<args_min, args_max, first_try_correct, errors,
                   prefill_buffer, captured, prefill_shown,
                   prompts_since_cycle, user_input, last_msg, highlighted,
                   reported_total, inputs_left, before, argv>>
    /\ UNCHANGED notMain

\* lines 311 and 324: read_input_during_playback(audio_seg) returns the text
\* typed during the playback, never returns, or raises.
PlayAndCapture ==
    /\ pc = "capture"
    /\ \/ \E text \in CapturedTexts :
             /\ prefill_buffer' = text
             /\ captured' = text
             /\ prompts_since_cycle' = 0
             /\ pc' = "prompt"
       \/ /\ pc' \in {"stuck", "crashed"}
          /\ UNCHANGED <<prefill_buffer, captured, prompts_since_cycle>>
    /\ UNCHANGED <<args_min, args_max, number, audio_seg, warnings,
                   total_numbers, first_try_correct, errors, is_first_try,
                   prefill_shown, user_input, last_msg, highlighted,
                   reported_total, inputs_left, before, argv, history>>
    /\ UNCHANGED notMain

\* The round's state when a line is read, and what the line was taken for.
Snapshot(kind, guess) ==
    [kind |-> kind, guess |-> guess, number |-> number, errors |-> errors,
     total_numbers |-> total_numbers,
     first_try_correct |-> first_try_correct, is_first_try |-> is_first_try,
     audio_seg |-> audio_seg, last_msg |-> last_msg, history |-> history]

PrefillAfterInput_Kept == prefill_buffer

\* line 316: the buffer is reset after the first input.
PrefillAfterInput == <<>>

\* lines 314-316: the prompt shows the prefill, a line is read and joined to
\* it, and the buffer is reset.
ReadLine ==
    /\ pc = "prompt"
    /\ inputs_left > 0
    /\ \E typed_text \in Additional(number, prefill_buffer) :
          user_input' = Strip(prefill_buffer \o typed_text)
    /\ prefill_shown' = prefill_buffer
    /\ prefill_buffer' = PrefillAfterInput
    /\ prompts_since_cycle' = prompts_since_cycle + 1
    /\ inputs_left' = inputs_left - 1
    /\ UNCHANGED <<args_min, args_max, audio_seg, warnings, captured, argv>>
    /\ UNCHANGED notMain

IsQuit(text)   == Lower(text) \in {<<"q">>, <<"q", "u", "i", "t">>,
                                   <<"e", "x", "i", "t">>}
IsRepeat_CaseSensitive(text) ==
    text \in {<<"r">>, <<"r", "e", "p", "e", "a", "t">>}

IsRepeat(text) == Lower(text) \in {<<"r">>,
                                   <<"r", "e", "p", "e", "a", "t">>}
IsShow(text)   == Lower(text) \in {<<"s">>, <<"s", "h", "o", "w">>}
IsCommand(text) == IsQuit(text) \/ IsRepeat(text) \/ IsShow(text)

ReportedTotal_WithCurrent(total) == total

\* line 319: the round in progress is left out of the reported total.
ReportedTotal(total) == total - 1

\* lines 318-321: quit prints the statistics and ends the session.
PromptQuit ==
    /\ ReadLine
    /\ before' = Snapshot("quit", 0)
    /\ IsQuit(user_input')
    /\ reported_total' = ReportedTotal(total_numbers)
    /\ last_msg' = "goodbye"
    /\ pc' = "quit"
    /\ UNCHANGED <<number, total_numbers, first_try_correct, errors,
                   is_first_try, highlighted, history>>

\* lines 323-325: repeat plays and captures again.
PromptRepeat ==
    /\ ReadLine
    /\ before' = Snapshot("repeat", 0)
    /\ IsRepeat(user_input')
    /\ pc' = "capture"
    /\ history' = [history EXCEPT !.repeated = TRUE]
    /\ UNCHANGED <<number, total_numbers, first_try_correct, errors,
                   is_first_try, highlighted, last_msg, reported_total>>

\* lines 327-330: show reveals the answer and ends the round.
PromptShow ==
    /\ ReadLine
    /\ before' = Snapshot("show", 0)
    /\ IsShow(user_input')
    /\ last_msg' = "answer_shown"
    /\ pc' = "round"
    /\ history' = [history EXCEPT !.completed = @ + 1]
    /\ UNCHANGED <<number, total_numbers, first_try_correct, errors,
                   is_first_try, highlighted, reported_total>>

CountFirstTry_Always(first_try, count) == count + 1

\* lines 335-336: if is_first_try: first_try_correct += 1
CountFirstTry(first_try, count) == IF first_try THEN count + 1 ELSE count

\* lines 333-340: the right number.
PromptCorrect ==
    /\ ReadLine
    /\ before' = Snapshot("guess", number)
    /\ ~IsCommand(user_input')
    /\ IsIntText(user_input')
    /\ IntOf(user_input') = number
    /\ first_try_correct' = CountFirstTry(is_first_try, first_try_correct)
    /\ errors' = IF is_first_try
                 THEN decrement_errors_for_number(number, errors)
                 ELSE errors
    /\ last_msg' = "correct"
    /\ pc' = "round"
    /\ history' = [history EXCEPT
                      !.completed = @ + 1,
                      !.first_try = IF history.wrong THEN @ ELSE @ + 1]
    /\ UNCHANGED <<number, total_numbers, is_first_try, highlighted,
                   reported_total>>

\* lines 341-376: a wrong number is scored digit by digit; a ValueError
\* raised inside the scoring pass is caught by the same except clause as one
\* raised by int(user_input).
PromptWrong ==
    /\ ReadLine
    /\ ~IsCommand(user_input')
    /\ IsIntText(user_input')
    /\ IntOf(user_input') # number
    /\ before' = Snapshot("guess", IntOf(user_input'))
    /\ is_first_try' = FALSE
    /\ history' = [history EXCEPT !.wrong = TRUE]
    /\ LET scored == ScoreGuess(number, IntOf(user_input'), errors)
       IN  /\ errors' = scored.errors
           /\ highlighted' =
                 IF scored.raised THEN highlighted ELSE scored.highlighted
           /\ last_msg' =
                 IF scored.raised THEN "enter_valid_number" ELSE "incorrect"
    /\ pc' = "prompt"
    /\ UNCHANGED <<number, total_numbers, first_try_correct, reported_total>>

\* lines 375-376: int(user_input) raises ValueError.
PromptInvalid ==
    /\ ReadLine
    /\ before' = Snapshot("invalid", 0)
    /\ ~IsCommand(user_input')
    /\ ~IsIntText(user_input')
    /\ last_msg' = "enter_valid_number"
    /\ pc' = "prompt"
    /\ UNCHANGED <<number, total_numbers, first_try_correct, errors,
                   is_first_try, highlighted, reported_total, history>>

FnIdle ==
    /\ fpc = "idle" /\ fn_number = 0 /\ fn_files = <<>> /\ fn_comps = <<>>

GenIdle ==
    /\ gpc = "idle" /\ g_errors = <<>> /\ g_min = 0 /\ g_max = 0
    /\ g_candidates = {} /\ g_possible = {} /\ g_result = 0

MainIdle ==
    /\ pc = "idle" /\ args_min = 0 /\ args_max = 0 /\ number = 0
    /\ audio_seg = <<>> /\ warnings = 0 /\ total_numbers = 0
    /\ first_try_correct = 0 /\ errors = <<>> /\ is_first_try = TRUE
    /\ prefill_buffer = <<>> /\ captured = <<>> /\ prefill_shown = <<>>
    /\ prompts_since_cycle = 0 /\ user_input = <<>> /\ last_msg = "none"
    /\ highlighted = <<>> /\ reported_total = 0 /\ inputs_left = 0
    /\ before = <<>> /\ argv = <<0, 0>> /\ history = <<>>

InitPlay == PlayInit /\ FnIdle /\ audio_dir = {} /\ GenIdle /\ MainIdle

NextPlay ==
    \/ PlayExport \/ PlayCall \/ PlayUnlink \/ PlaySet
    \/ CaptureStart \/ CaptureSave \/ CaptureSetRaw \/ CaptureCheck
    \/ CaptureSelect \/ CaptureRead \/ CaptureRestore \/ CaptureJoin
    \/ KeyArrives

SpecPlay == InitPlay /\ [][NextPlay]_vars

\* Both threads are scheduled: each keeps taking steps while it can.
FairPlay ==
    /\ SpecPlay
    /\ WF_vars(play_audio_async)
    /\ WF_vars(read_input_during_playback)

InitFn == PlayIdle /\ FnInit /\ GenIdle /\ MainIdle

NextFn == FnResolve \/ FnDecompose

SpecFn == InitFn /\ [][NextFn]_vars

InitGen == PlayIdle /\ FnIdle /\ audio_dir = {} /\ GenInit /\ MainIdle

NextGen == GenCompose \/ GenDraw

SpecGen == InitGen /\ [][NextGen]_vars

Init == PlayIdle /\ FnIdle /\ GenIdle /\ MainInit

Next ==
    \/ Startup \/ StartRound \/ PlayAndCapture
    \/ PromptQuit \/ PromptRepeat \/ PromptShow
    \/ PromptCorrect \/ PromptWrong \/ PromptInvalid

Spec == Init /\ [][Next]_vars

(***************************************************************************)
(* Claims about the coordinator (SpecPlay, FairPlay).                      *)
(***************************************************************************)

\* C1: every call of read_input_during_playback eventually leaves the capture
\* loop and returns (or raises), also when the playback thread fails.
C1_CallEventuallyOver == <>CallOver

\* C2: when the call returns, every keystroke that had arrived before
\* done_event was set is in the returned buffer, and the buffer holds
\* keystrokes in their arrival order.
C2_EarlyKeysAllCaptured ==
    cpc = "returned" =>
        /\ Len(buffer) >= typedAtSignal
        /\ IsPrefix(buffer, typed)

\* C3: once control is back in the caller (normal return, or an exception
\* from tcgetattr, tty.setraw, select or read), the terminal's input mode is
\* the mode it had before the call.
C3_TerminalModeRestored == CallOver => termMode = preMode

\* C3 witness: an exception while reading, after raw mode was entered and a
\* keystroke captured, with the non-default mode restored.
C3_Witness ==
    /\ cpc = "raised" /\ cexc /\ buffer # <<>>
    /\ preMode = "cbreak" /\ termMode = "cbreak"

\* C13: whenever control is back in the caller of
\* read_input_during_playback, by return or by exception, the playback
\* thread has finished.
C13_ThreadOverWhenCallOver == CallOver => PlayTerminated

\* C13, the normal return only: line 64 joins the thread before line 65
\* returns.
C13_JoinedOnReturn == cpc = "returned" => PlayTerminated

\* C14: on every exit path of the playback thread the completion signal has
\* been set exactly once.
C14_SignalOnEveryExit == PlayTerminated => sets = 1

\* C14, the part about order: the signal is set at most once, and never
\* while the export or the player process is still running.
C14_NeverEarlyNeverTwice ==
    /\ sets <= 1
    /\ done_event => ppc \notin {"unstarted", "export", "call", "unlink"}

(***************************************************************************)
(* Claims about the clip resolver and the decomposition (SpecFn).          *)
(***************************************************************************)
Descending(s) == \A i \in 1..(Len(s) - 1) : s[i] > s[i + 1]

WellFormedComponents(s, n) ==
    /\ SumSeq(s) = n
    /\ Descending(s)
    /\ Len(s) <= 4
    /\ \A i \in 1..Len(s) : s[i] # 0

NoExactClip == ~Exists(audio_dir, ClipFile(fn_number))

\* C5: for n in [1,1999] with no exact-match clip, the components of
\* get_number_components and the clip values of get_audio_files_for_number
\* sum to n, run most significant first, number at most 4, and none is 0.
C5_DecompositionRoundTrip ==
    (fpc = "done" /\ fn_number \in 1..DEFAULT_MAX /\ NoExactClip) =>
        /\ WellFormedComponents(fn_comps, fn_number)
        /\ WellFormedComponents(ClipValues(fn_files), fn_number)

\* C5 witness: 1002 resolves to the clips 1000 and 2, no zero in between.
C5_Witness ==
    /\ fpc = "done" /\ fn_number = 1002 /\ NoExactClip
    /\ fn_comps = <<1000, 2>>
    /\ ClipValues(fn_files) = <<1000, 2>>

\* C6: a number of [11,19] decomposes into itself alone, and for every n of
\* [0,1999] with n mod 100 in [11,19] that remainder is one component (of
\* get_number_components, and of the clips when no exact clip exists); 10 is
\* never a component next to a unit.
C6_TeensIndivisible ==
    (fpc = "done" /\ fn_number % 100 \in 11..19) =>
        LET teen == fn_number % 100
            clips == ClipValues(fn_files)
        IN  /\ \E i \in 1..Len(fn_comps) : fn_comps[i] = teen
            /\ \A i \in 1..Len(fn_comps) : fn_comps[i] # 10
            /\ fn_number \in 11..19 => fn_comps = <<fn_number>>
            /\ NoExactClip =>
                  /\ \E i \in 1..Len(clips) : clips[i] = teen
                  /\ \A i \in 1..Len(clips) : clips[i] # 10
                  /\ fn_number \in 11..19 => clips = <<fn_number>>

\* C6 witness: 1915 is 1000, 900 and the teen 15.
C6_Witness ==
    /\ fpc = "done" /\ fn_number = 1915 /\ NoExactClip
    /\ fn_comps = <<1000, 900, 15>>
    /\ ClipValues(fn_files) = <<1000, 900, 15>>

\* C7: when the clip named exactly n exists, get_audio_files_for_number
\* returns that clip alone, for 0 and for numbers that would decompose as
\* well; several clips are returned only when the exact clip is absent.
C7_ExactMatchShortCircuit ==
    fpc # "start" =>
        /\ ~NoExactClip => fn_files = <<ClipFile(fn_number)>>
        /\ Len(fn_files) # 1 => NoExactClip

\* C7 witness: 1234 has an exact recording and is not decomposed.
C7_Witness ==
    /\ fpc = "done" /\ fn_number = 1234 /\ ~NoExactClip
    /\ fn_files = <<ClipFile(1234)>>
    /\ Len(get_number_components(fn_number)) = 4

(***************************************************************************)
(* Claims about the adaptive generator (SpecGen).                          *)
(***************************************************************************)
\* C8: for every accepted range and every bucket map the generated number
\* lies in [min,max]; and when no bucket is positive the possible results
\* are exactly the integers of [max(min,0), max].
C8_GeneratedInRange ==
    gpc = "done" =>
        /\ g_min <= g_result /\ g_result <= g_max
        /\ \A n \in g_possible : g_min <= n /\ n <= g_max
        /\ PositiveErrors(g_errors) = {} =>
              g_possible = {n \in 0..DEFAULT_MAX :
                               Max(g_min, 0) <= n /\ n <= g_max}

\* C8 witness: with the 1000 bucket positive and the range [0,12] the
\* composed candidates above 12 are rejected and the redraw gives 12.
C8_Witness ==
    /\ gpc = "done" /\ g_errors[1000] > 0
    /\ g_min = 0 /\ g_max = 12 /\ g_result = 12
    /\ \E r \in GenCandidates(PositiveErrors(g_errors)) : r > g_max

(***************************************************************************)
(* Claims about the session (Spec).                                        *)
(***************************************************************************)
\* C4: the text captured by a playback/capture cycle is the prefill of the
\* first prompt after that cycle and of no later one: every later prompt
\* before the next cycle shows an empty prefill.
C4_PrefillUsedOnce ==
    /\ prompts_since_cycle = 1 =>
          prefill_shown = captured /\ IsPrefix(captured, user_input)
    /\ prompts_since_cycle >= 2 => prefill_shown = <<>>
    /\ prompts_since_cycle >= 1 /\ pc = "prompt" => prefill_buffer = <<>>

\* C4 witness: the second prompt after a cycle that captured "1" shows no
\* prefill.
C4_Witness ==
    /\ prompts_since_cycle = 2
    /\ captured = <<"1">>
    /\ prefill_shown = <<>>

\* The decimal digit of n at position p (0 = units).
DigitAt(n, p) == (n \div Pow10(p)) % 10

Abs(n) == IF n < 0 THEN 0 - n ELSE n

\* The digit positions of an integer guess.
GuessPositions(guess) == 0..(Len(NatStr(Abs(guess))) - 1)

\* The buckets a wrong guess is to increment: the target's digit value at
\* every position of the guess where the digits differ and the target's is
\* not 0.
MissedBuckets(n, guess) ==
    { DigitAt(n, p) * Pow10(p) :
        p \in { q \in GuessPositions(guess) :
                  /\ DigitAt(Abs(guess), q) # DigitAt(n, q)
                  /\ DigitAt(n, q) # 0 } }

\* The state right after a wrong integer guess was handled.
AfterWrongGuess == before.kind = "guess" /\ before.guess # before.number

\* Exactly the missed buckets went up, each by 1.
BucketsAsClaimed ==
    \A k \in (DOMAIN errors) \cup (DOMAIN before.errors)
              \cup MissedBuckets(before.number, before.guess) :
       Get(errors, k) =
          Get(before.errors, k)
          + (IF k \in MissedBuckets(before.number, before.guess)
             THEN 1 ELSE 0)

\* Exactly the differing digits of the echoed guess are marked.
MarksAsClaimed ==
    /\ last_msg = "incorrect"
    /\ Len(highlighted) = Len(NatStr(Abs(before.guess)))
    /\ \A p \in GuessPositions(before.guess) :
          highlighted[Len(highlighted) - p] =
             (DigitAt(Abs(before.guess), p) # DigitAt(before.number, p))

\* C9: after an integer guess that differs from the target, the bucket keyed
\* by the target's digit value at position p went up by exactly 1 if and only
\* if p is a digit position of the guess where the guess digit differs from
\* the target digit and the target digit is not 0; no other bucket changed.
C9_ScoringRecordsTargetDigits == AfterWrongGuess => BucketsAsClaimed

\* C9, for guesses that are not negative: the buckets are as claimed and
\* exactly the differing digits are marked.
C9_HoldsForNaturalGuesses ==
    (AfterWrongGuess /\ before.guess >= 0) =>
        BucketsAsClaimed /\ MarksAsClaimed

\* C9, the example of the claim: 1847 against 1965 increments exactly the
\* buckets 900, 60 and 5 and marks all digits but the first.
C9_Example ==
    /\ AfterWrongGuess /\ before.number = 1965 /\ before.guess = 1847
    /\ before.errors = <<>>
    /\ DOMAIN errors = {900, 60, 5}
    /\ \A k \in DOMAIN errors : errors[k] = 1
    /\ highlighted = <<FALSE, TRUE, TRUE, TRUE>>

\* C10: the error-bucket map never has an entry keyed 0 (nor any key that
\* is not positive), and every count in it is a non-negative integer.
C10_NoZeroBucketNoNegativeCount ==
    \A k \in DOMAIN errors : k > 0 /\ errors[k] \in Nat

\* C10 witness: 105 was missed with the longer guess 1847 (its tens digit 0
\* and the absent thousands digit mismatched and were not recorded), then
\* guessed first try until its buckets 100 and 5 were at 0, and guessed
\* first try once more: they stay at 0.
C10_Witness ==
    /\ before.kind = "guess" /\ before.guess = 105 /\ before.number = 105
    /\ before.is_first_try
    /\ DOMAIN errors = {100, 5}
    /\ errors[100] = 0 /\ errors[5] = 0
    /\ before.errors = errors

\* The state right after the target was guessed.
AfterRightGuess == before.kind = "guess" /\ before.guess = before.number

\* The components of n's decomposition, as a set.
ComponentSet(n) ==
    {get_number_components(n)[i] : i \in 1..Len(get_number_components(n))}

\* C11: after a right guess with no wrong guess earlier in the round, every
\* positive bucket keyed by a component of the target is down by exactly 1,
\* every other bucket (at 0, or keyed by no component) is as it was, and no
\* bucket appears or disappears; after a right guess that follows a wrong
\* one the map is as it was.
C11_FirstTryDecay ==
    AfterRightGuess =>
        /\ DOMAIN errors = DOMAIN before.errors
        /\ \A k \in DOMAIN errors :
              errors[k] =
                 IF /\ ~before.history.wrong
                    /\ k \in ComponentSet(before.number)
                    /\ before.errors[k] > 0
                 THEN before.errors[k] - 1
                 ELSE before.errors[k]

\* C11 witness: 104 guessed first try while the buckets 100 and 5 are
\* positive: 100 goes down by 1 and 5, no component of 104, stays.
C11_Witness ==
    /\ AfterRightGuess /\ ~before.history.wrong /\ before.number = 104
    /\ DOMAIN before.errors = {100, 5}
    /\ before.errors[100] = 1 /\ errors[100] = 0
    /\ before.errors[5] = 1 /\ errors[5] = 1

\* C12: the total counter is the number of rounds started, and
\* first_try_correct is the number of rounds that ended with a right guess
\* not preceded by a wrong guess in the round: rounds ended by show, by quit
\* or by a right guess after a wrong one add nothing to it.
C12_CountersMatchRounds ==
    pc # "idle" =>
        /\ total_numbers = history.started
        /\ first_try_correct = history.first_try
        /\ first_try_correct <= history.completed

\* C12 witness: three rounds started and ended within four inputs, the last
\* by a right guess after a wrong one, one by show and one first try: the
\* total is 3 and first_try_correct is 1.
C12_Witness ==
    /\ pc = "round" /\ inputs_left = 0
    /\ total_numbers = 3 /\ history.completed = 3
    /\ last_msg = "correct" /\ history.wrong
    /\ first_try_correct = 1

\* A text int() accepts: digits, at least one, after an optional sign.
LooksLikeInteger(text) ==
    \E k \in 0..1 :
       /\ Len(text) > k
       /\ k = 1 => text[1] \in {"+", "-"}
       /\ \A i \in (k + 1)..Len(text) : IsDigit(text[i])

\* The commands of the prompt, in any letter case.
LooksLikeCommand(text) ==
    Lower(text) \in { <<"q">>, <<"q", "u", "i", "t">>, <<"e", "x", "i", "t">>,
                      <<"r">>, <<"r", "e", "p", "e", "a", "t">>,
                      <<"s">>, <<"s", "h", "o", "w">> }

\* C15: after a line that is neither a command nor an integer the total, the
\* first_try_correct counter, the bucket map, the target and the round's
\* first-attempt status are as before the line, the message asks for a
\* number, and the same round is at its prompt again.
C15_InvalidInputChangesNothing ==
    (/\ before.kind # "none"
     /\ ~LooksLikeCommand(user_input)
     /\ ~LooksLikeInteger(user_input)) =>
        /\ total_numbers = before.total_numbers
        /\ first_try_correct = before.first_try_correct
        /\ errors = before.errors
        /\ number = before.number
        /\ is_first_try = before.is_first_try
        /\ history.started = before.history.started
        /\ last_msg = "enter_valid_number"
        /\ pc = "prompt"

\* C15 witness: an empty line in a round whose buckets are not empty, after
\* a wrong guess.
C15_Witness ==
    /\ before.kind = "invalid" /\ user_input = <<>>
    /\ errors # <<>> /\ errors = before.errors
    /\ pc = "prompt" /\ total_numbers = 1

\* C16: after a repeat command, in any letter case, the target, the
\* assembled audio, the counters, the bucket map and the round's
\* first-attempt status are as before it, and the round is in a new
\* playback/capture cycle or at the first prompt after one; and a right
\* guess in a round without a wrong guess counts as first try, repeats or
\* not.
C16_RepeatKeepsRound ==
    /\ (/\ before.kind # "none"
        /\ Lower(user_input) \in {<<"r">>, <<"r", "e", "p", "e", "a", "t">>})
       =>
        /\ number = before.number
        /\ audio_seg = before.audio_seg
        /\ total_numbers = before.total_numbers
        /\ first_try_correct = before.first_try_correct
        /\ errors = before.errors
        /\ is_first_try = before.is_first_try
        /\ history.wrong = before.history.wrong
        /\ pc \in {"capture", "prompt", "stuck", "crashed"}
        /\ pc = "prompt" => prompts_since_cycle = 0
    /\ (AfterRightGuess /\ ~before.history.wrong) =>
          first_try_correct = before.first_try_correct + 1

\* C16 witness: a right guess after a repeat ("R") and no wrong guess is
\* counted as first try.
C16_Witness ==
    /\ AfterRightGuess
    /\ before.history.repeated /\ ~before.history.wrong
    /\ before.first_try_correct = 0 /\ first_try_correct = 1
    /\ prompts_since_cycle = 1

\* C17: when the session has ended by a quit command, the total reported in
\* the statistics is the number of rounds ended by a right guess or by show
\* (the round in progress is left out), and first_try_correct is not above
\* it.
C17_QuitReportsCompletedRounds ==
    pc = "quit" =>
        /\ Lower(user_input) \in {<<"q">>, <<"q", "u", "i", "t">>,
                                  <<"e", "x", "i", "t">>}
        /\ reported_total = history.completed
        /\ reported_total = history.started - 1
        /\ first_try_correct <= reported_total
        /\ last_msg = "goodbye"

\* C17 witness: "Exit" in the third round, after a wrong guess in it; of the
\* two rounds before, one was solved first try: the statistics report 2.
C17_Witness ==
    /\ pc = "quit" /\ user_input = <<"E", "x", "i", "t">>
    /\ history.started = 3 /\ history.wrong
    /\ reported_total = 2 /\ first_try_correct = 1

RECURSIVE KeepPresent(_, _)
\* The clips of a list that are in the directory, in the order of the list.
KeepPresent(clips, dir) ==
    IF clips = <<>> THEN <<>>
    ELSE (IF Head(clips) \in dir THEN <<Head(clips)>> ELSE <<>>)
         \o KeepPresent(Tail(clips), dir)

\* C18: in every round the assembled audio is the concatenation, in resolved
\* order, of exactly the resolved clips that are in the audio directory
\* (empty when none is), and one warning was printed for each that is not.
C18_MissingClipsSkipped ==
    (pc \in {"capture", "prompt", "stuck", "crashed", "quit"}) =>
        LET resolved == get_audio_files_for_number(number, audio_dir)
        IN  /\ audio_seg = KeepPresent(resolved, audio_dir)
            /\ warnings = Len(resolved) - Len(audio_seg)

\* C18 witness: 1004 with the clip 1000 missing is assembled from the clip 4
\* alone, with one warning, and the round is at its prompt.
C18_Witness ==
    /\ pc = "prompt" /\ number = 1004
    /\ get_audio_files_for_number(number, audio_dir)
          = <<ClipFile(1000), ClipFile(4)>>
    /\ audio_seg = <<ClipFile(4)>> /\ warnings = 1

\* C18, the other case: 1005 with both of its clips missing gives the empty
\* buffer and two warnings, and the round is at its prompt.
C18_NoClipAtAll ==
    /\ pc = "prompt" /\ number = 1005
    /\ audio_seg = <<>> /\ warnings = 2

\* C19: once startup is over, min is the given --min raised to 0 and max
\* the given --max lowered to 1999; the program has exited with status 1
\* exactly when min >= max after that, and then no round was started, no
\* audio assembled or played and no counter touched; otherwise rounds run
\* with 0 <= min < max <= 1999.
C19_RangeValidated ==
    pc \notin {"idle", "start"} =>
        /\ args_min = (IF argv[1] < 0 THEN 0 ELSE argv[1])
        /\ args_max = (IF argv[2] > 1999 THEN 1999 ELSE argv[2])
        /\ pc = "exit1" <=> args_min >= args_max
        /\ pc = "exit1" =>
              /\ history = NoHistory /\ number = 0 /\ audio_seg = <<>>
              /\ total_numbers = 0 /\ first_try_correct = 0
              /\ errors = <<>> /\ prompts_since_cycle = 0
              /\ last_msg = "none"
        /\ pc # "exit1" =>
              0 <= args_min /\ args_min < args_max /\ args_max <= 1999

\* C19 witness: --min 1999 --max 2500 is clamped to [1999,1999] and
\* rejected.
C19_Witness ==
    /\ pc = "exit1" /\ argv = <<1999, 2500>>
    /\ args_min = 1999 /\ args_max = 1999

\* C19, the other case: --min -3 --max 1 is clamped to [0,1] and a round
\* runs with a number of that range.
C19_ClampedAndAccepted ==
    /\ pc = "prompt" /\ argv = <<-3, 1>>
    /\ args_min = 0 /\ args_max = 1 /\ number \in 0..1

\* The buckets that are higher than before the last line of input.
RaisedBuckets ==
    {k \in DOMAIN errors : errors[k] > Get(before.errors, k)}

\* C20: every bucket that the scoring of a wrong guess adds or increments
\* is keyed by a component of the target's decomposition.
C20_ScoredKeysAreComponents ==
    AfterWrongGuess => RaisedBuckets \subseteq ComponentSet(before.number)

\* C20, for targets without a teen: the keys scored are components.
C20_HoldsWithoutTeen ==
    (AfterWrongGuess /\ before.number % 100 \notin 11..19) =>
        RaisedBuckets \subseteq ComponentSet(before.number)

\* C20, the consequence: 15 was missed, which raised the buckets 10 and 5,
\* and then guessed right first try, which decays the bucket 15 only: 10 and
\* 5 are as high as before.
C20_TeenMissNeverHeals ==
    /\ AfterRightGuess /\ ~before.history.wrong /\ before.number = 15
    /\ DOMAIN errors = {10, 5}
    /\ errors[10] = 1 /\ errors[5] = 1

\* Some digit of the echoed guess is marked as mismatched.
SomeDigitMarked == \E i \in 1..Len(highlighted) : highlighted[i]

\* C21: whenever a wrong integer guess is echoed back, at least one of its
\* digits is marked as mismatched.
C21_WrongGuessHasMarkedDigit ==
    (AfterWrongGuess /\ last_msg = "incorrect") => SomeDigitMarked

\* C21, for guesses with at least as many digits as the target: some digit
\* is marked.
C21_HoldsForLongEnoughGuesses ==
    (/\ AfterWrongGuess /\ last_msg = "incorrect"
     /\ Len(Str(before.guess)) >= Len(Str(before.number)))
       => SomeDigitMarked

\* C21, the case found: 5 against 105 is echoed with no digit marked, and no
\* bucket is raised for the hundred that was missed.
C21_SuffixGuessUnmarked ==
    /\ AfterWrongGuess /\ last_msg = "incorrect"
    /\ before.number = 105 /\ before.guess = 5
    /\ highlighted = <<FALSE>>
    /\ errors = before.errors

\* C22: whatever the bucket map, every result composed before the range
\* check is an integer of [0,1999], the sum of at most one thousands value
\* (1000), at most one hundreds value (100..900) and at most one tail (a
\* teen, a tens value with an optional unit, or a value of 1..99); and when
\* some bucket is positive the number returned is never 0.
C22_CandidatesWellFormed ==
    LET pos == PositiveErrors(g_errors)
    IN  /\ gpc = "composed" =>
              /\ \A r \in g_candidates : r \in 0..1999
              /\ pos # {} =>
                    /\ ThousandsPart(pos) \subseteq {0, 1000}
                    /\ HundredsPart(pos) \subseteq {100 * k : k \in 0..9}
                    /\ TeensOf(pos) \subseteq 11..19
                    /\ TensOf(pos) \subseteq {10 * k : k \in 2..9}
                    /\ UnitsPart(pos) \subseteq 0..9
                    /\ TailPart(pos) \subseteq 0..99
                    /\ g_candidates =
                          {a + b + c : a \in ThousandsPart(pos),
                                       b \in HundredsPart(pos),
                                       c \in TailPart(pos)}
        /\ (gpc = "done" /\ pos # {}) =>
              g_result # 0 /\ 0 \notin g_possible

\* C22 witness: with the bucket 7 positive and the range [0,1] the results
\* composed run from 0 to 1999; 0 is among them and in range, and 1 is
\* returned.
C22_Witness ==
    /\ gpc = "done" /\ g_min = 0 /\ g_max = 1
    /\ g_errors[7] > 0
    /\ 0 \in g_candidates /\ 1999 \in g_candidates
    /\ g_result = 1 /\ g_possible = {1}

\* C23: whenever the answer to a line is the message asking for a number,
\* the round's first-attempt status is what it was before the line.
C23_AskForNumberKeepsFirstTry ==
    (before.kind # "none" /\ last_msg = "enter_valid_number") =>
        is_first_try = before.is_first_try

\* C23, for lines that int() rejects: the first-attempt status is kept.
C23_HoldsForNonIntegers ==
    (/\ before.kind # "none" /\ last_msg = "enter_valid_number"
     /\ ~LooksLikeInteger(user_input)) =>
        is_first_try = before.is_first_try

\* C23, the consequence: the right answer given after "-5", which was
\* answered by the message asking for a number and marked no digit, is not
\* counted as first try.
C23_UnscoredGuessCostsFirstTry ==
    /\ AfterRightGuess /\ total_numbers = 1 /\ prompts_since_cycle = 2
    /\ before.last_msg = "enter_valid_number"
    /\ ~before.is_first_try
    /\ first_try_correct = 0

\* C24: for every n of [0,1999] with no exact-match clip, the values of the
\* clips that get_audio_files_for_number resolves are the same sequence as
\* the components of get_number_components.
C24_ClipsAreComponents ==
    (fpc = "done" /\ NoExactClip) => ClipValues(fn_files) = fn_comps

\* C24 witness: 1017, with no recording of its own, is spoken as 1000 and
\* 17 and decomposed into 1000 and 17.
C24_Witness ==
    /\ fpc = "done" /\ fn_number = 1017 /\ NoExactClip
    /\ Len(fn_files) = 2
    /\ ClipValues(fn_files) = <<1000, 17>>
    /\ fn_comps = <<1000, 17>>

====
